---- MODULE Spec2Model ----
(***************************************************************************)
(* Model of Products.fetchRecommended (src/products.js): validation of    *)
(* the need-profile, compilation of the skin-type clause and the ranking  *)
(* expression, submission of the five category queries, and the           *)
(* Promise.all join that builds the returned mapping.                     *)
(*                                                                         *)
(* Two specifications share the actions:                                   *)
(*   Spec       the whole call, with every order of promise settlement    *)
(*              and every store failure;                                   *)
(*   SpecQuery  the compiler and one category query as pure functions of  *)
(*              the profile and the catalog, over wider inputs.           *)
(***************************************************************************)
EXTENDS Integers, Sequences, FiniteSets, TLC

VARIABLES
    needs,          \* the argument of fetchRecommended: key -> JS value
    catalog,        \* the primary keys of the rows of the products table
    pc,             \* position in fetchRecommended
    skintypeQuery,  \* the columns OR-ed in the compiled skin-type clause
    skinNeedsQuery, \* the terms summed in the compiled ranking expression
    promises,       \* the promises array, one entry per db.query call
    dbQueries,      \* the $1 parameter of every query handed to db.query
    productRecs,    \* the local productRecs object
    returned,       \* what the caller has received from the call
    outcome,        \* "none", "BadRequestError", "StoreError" or "returned"
    inversion,      \* a promise has settled before one pushed earlier
    lastItem,       \* SpecQuery: the category of the last query evaluated
    lastRows        \* SpecQuery: the rows of the last query evaluated

vars == <<needs, catalog, pc, skintypeQuery, skinNeedsQuery, promises,
          dbQueries, productRecs, returned, outcome, inversion, lastItem,
          lastRows>>

----------------------------------------------------------------------------
(* Bounds of the model *)

\* the catalog holds the products with ids 1..k for some k <= NumProducts
NumProducts == 10

\* a profile lacks at most this many of the required keys
MaxMissing == 1

----------------------------------------------------------------------------
(* Program constants *)

\* LIMIT 3
Limit == 3

\* "safety" >= '50'
MinSafety == 50

requiredFields ==
    <<"cleanser", "toner", "serum", "moisturizer", "sunscreen",
      "oily", "dry", "sensitive",
      "acne_fighting", "anti_aging", "brightening", "uv">>

categories == <<"cleanser", "toner", "serum", "moisturizer", "sunscreen">>

skintypes == <<"oily", "dry", "sensitive">>

skinNeeds == <<"acne_fighting", "anti_aging", "brightening", "uv">>

Range(s) == {s[k] : k \in 1..Len(s)}

----------------------------------------------------------------------------
(* JavaScript values and the comparisons the code applies to them *)

Num(k) == [type |-> "number", nan |-> FALSE, n |-> k]

NaN == [type |-> "number", nan |-> TRUE, n |-> 0]

Bool(b) == [type |-> "boolean", nan |-> FALSE, n |-> IF b THEN 1 ELSE 0]

Undefined == [type |-> "undefined", nan |-> FALSE, n |-> 0]

\* ToNumber: true -> 1, false -> 0, undefined -> NaN
ToNumber(v) ==
    CASE v.type = "number" -> v
      [] v.type = "boolean" -> Num(v.n)
      [] OTHER -> NaN

\* x === y
StrictEquals(x, y) ==
    /\ x.type = y.type
    /\ CASE x.type = "number" -> ~x.nan /\ ~y.nan /\ x.n = y.n
         [] x.type = "boolean" -> x.n = y.n
         [] OTHER -> TRUE

\* x == y: operands of one type compare strictly, a boolean operand is
\* converted with ToNumber first, undefined equals only undefined
LooseEquals(x, y) ==
    IF x.type = y.type THEN StrictEquals(x, y)
    ELSE IF x.type = "undefined" \/ y.type = "undefined" THEN FALSE
    ELSE StrictEquals(ToNumber(x), ToNumber(y))

\* ToNumber of an array of quoted column names: [] -> "" -> 0, and any
\* non-empty array -> '"acne_fighting"' or '"a","b"' -> NaN
ArrayToNumber(arr) == IF Len(arr) = 0 THEN Num(0) ELSE NaN

\* x > y on numbers: false when either side is NaN
GreaterThan(x, y) == ~x.nan /\ ~y.nan /\ x.n > y.n

----------------------------------------------------------------------------
(* The products table *)

Row(id, type, safety, oily, dry, sensitive, acne, aging, bright, uv, comedo) ==
    [id |-> id, type |-> type, safety |-> safety,
     oily |-> oily, dry |-> dry, sensitive |-> sensitive,
     acne_fighting |-> acne, anti_aging |-> aging, brightening |-> bright,
     uv |-> uv, comedogenic |-> comedo]

\* The product with primary key i. The first ten cover: four safe cleansers
\* (more than LIMIT), an unsafe one, two toners, a product of a type outside
\* the routine, one serum, no moisturizer, one unsafe sunscreen. Later ids
\* derive their columns from the id.
ProductAt(i) ==
    CASE i = 1  -> Row(1, "cleanser", 80, 1, 0, 0, 1, 0, 0, 0, 0)
      [] i = 2  -> Row(2, "cleanser", 50, 0, 1, 0, 0, 0, 0, 0, 1)
      [] i = 3  -> Row(3, "cleanser", 90, 1, 1, 1, 1, 1, 0, 0, 1)
      [] i = 4  -> Row(4, "cleanser", 60, 0, 0, 1, 0, 0, 0, 0, 0)
      [] i = 5  -> Row(5, "cleanser", 49, 1, 0, 0, 0, 0, 0, 0, 0)
      [] i = 6  -> Row(6, "toner", 70, 1, 0, 0, 0, 0, 0, 1, 1)
      [] i = 7  -> Row(7, "toner", 55, 0, 0, 0, 0, 0, 1, 0, 0)
      [] i = 8  -> Row(8, "mask", 99, 1, 1, 1, 1, 1, 1, 1, 0)
      [] i = 9  -> Row(9, "serum", 75, 0, 1, 0, 0, 1, 0, 0, 1)
      [] i = 10 -> Row(10, "sunscreen", 30, 1, 1, 0, 0, 0, 0, 1, 0)
      [] OTHER  -> Row(i, categories[5 - ((i - 1) % 5)], 45 + 5 * (i % 4),
                       i % 2, (i \div 2) % 2, (i \div 4) % 2,
                       (i \div 2) % 2, i % 2, (i \div 4) % 2, i % 2,
                       (i \div 2) % 2)

\* a catalog is the set of the ids of its rows
Catalogs == {1..k : k \in 0..NumProducts}

----------------------------------------------------------------------------
(* Need-profiles *)

Keys == Range(requiredFields)

\* the values a flag takes in the profiles of Spec
FlagValues == {Num(0), Num(1)}

\* the values a skin-type flag takes in the profiles of SpecQuery
SkinValues == {Num(0), Num(1), Bool(TRUE), Bool(FALSE)}

\* the values of oily there: also a number other than 0 and 1, and a key
\* that is present with the value undefined
OilyValues == SkinValues \cup {Num(2), Undefined}

Profile(cat, skin, need) ==
    [k \in Keys |->
        IF k \in DOMAIN cat THEN cat[k]
        ELSE IF k \in DOMAIN skin THEN skin[k]
        ELSE need[k]]

Restrict(f, S) == [k \in S |-> f[k]]

\* the skin-type and functionality parts of the profiles of Spec: all
\* zero; the scenario oily:1, acne_fighting:1; booleans; several skin types
SkinPart(o, d, s) == [oily |-> o, dry |-> d, sensitive |-> s]

NeedPart(a, g, b, u) ==
    [acne_fighting |-> a, anti_aging |-> g, brightening |-> b, uv |-> u]

FlagParts ==
    { <<SkinPart(Num(0), Num(0), Num(0)), NeedPart(Num(0), Num(0), Num(0), Num(0))>>,
      <<SkinPart(Num(1), Num(0), Num(0)), NeedPart(Num(1), Num(0), Num(0), Num(0))>>,
      <<SkinPart(Bool(TRUE), Bool(FALSE), Num(1)), NeedPart(Num(0), Bool(TRUE), Num(1), Num(0))>> }

MissingSets == {M \in SUBSET Keys : Cardinality(M) <= MaxMissing}

Profiles ==
    {Restrict(Profile(cat, fp[1], fp[2]), Keys \ M) :
        cat \in [Range(categories) -> FlagValues], fp \in FlagParts,
        M \in MissingSets}

QueryProfiles ==
    {Profile([c \in Range(categories) |-> Num(1)], skin, need) :
        skin \in {f \in [Range(skintypes) -> OilyValues] :
                    f["dry"] \in SkinValues /\ f["sensitive"] \in SkinValues},
        need \in [Range(skinNeeds) -> FlagValues]}

----------------------------------------------------------------------------
(* Lines 12-19: the check of the required fields *)

\* needs.hasOwnProperty(field)
HasOwnProperty(n, field) == field \in DOMAIN n

\* needs[key]: undefined for a key the object lacks
Get(n, key) == IF key \in DOMAIN n THEN n[key] ELSE Undefined

\* Mutant: only the seven fields the function reads are checked
MissingRequiredReadOnly(n) ==
    \E k \in 6..Len(requiredFields) : ~HasOwnProperty(n, requiredFields[k])

\* the forEach throws at the first required field the profile lacks
MissingRequired(n) ==
    \E k \in 1..Len(requiredFields) : ~HasOwnProperty(n, requiredFields[k])

----------------------------------------------------------------------------
(* Lines 31-40: the compiler *)

\* ["oily", "dry", "sensitive"].filter((type) => needs[type] == 1); the
\* clause is "" when nothing is chosen, else the chosen columns OR-ed
SkintypeQuery(n) ==
    SelectSeq(skintypes, LAMBDA t : LooseEquals(Get(n, t), Num(1)))

\* [...].filter((need) => needs[need] == 1), each name then quoted
ChosenSkinNeeds(n) ==
    SelectSeq(skinNeeds, LAMBDA t : LooseEquals(Get(n, t), Num(1)))

\* chosenSkinNeeds > 0 ? chosenSkinNeeds.join(" + ") : "0"
\* (the array itself, not its length, is compared with 0)
SkinNeedsBase(n) ==
    IF GreaterThan(ArrayToNumber(ChosenSkinNeeds(n)), Num(0))
    THEN ChosenSkinNeeds(n)
    ELSE <<"0">>

\* Mutant: needs.oily === true
SkinNeedsQueryStrict(n) ==
    IF StrictEquals(Get(n, "oily"), Bool(TRUE))
    THEN Append(SkinNeedsBase(n), "comedogenic")
    ELSE SkinNeedsBase(n)

\* skinNeedsQuery += (needs.oily == true) ? ` + "comedogenic"` : ""
SkinNeedsQuery(n) ==
    IF LooseEquals(Get(n, "oily"), Bool(TRUE))
    THEN Append(SkinNeedsBase(n), "comedogenic")
    ELSE SkinNeedsBase(n)

----------------------------------------------------------------------------
(* Lines 46-52: the query, as the store evaluates it *)

\* one term of the ranking expression on a row: a column or the literal 0
Term(t, p) == IF t = "0" THEN 0 ELSE p[t]

RECURSIVE SumTerms(_, _)
SumTerms(expr, p) ==
    IF Len(expr) = 0 THEN 0
    ELSE Term(Head(expr), p) + SumTerms(Tail(expr), p)

\* SUM(expr) AS "ranking" with GROUP BY "id": id is the primary key, so
\* every group is one row and the sum is the expression on that row
Ranking(expr, p) == SumTerms(expr, p)

\* Mutant: the clause is emitted even when no skin type is chosen
SkintypeClauseAlways(clause, p) ==
    \E k \in 1..Len(clause) : p[clause[k]] = 1

\* ${skintypeQuery}: nothing, or AND (c1 = 1 OR c2 = 1 ...)
SkintypeClause(clause, p) ==
    Len(clause) > 0 => \E k \in 1..Len(clause) : p[clause[k]] = 1

\* Mutant: ${skintypeQuery} is left out of the query text
WhereNoSkintype(item, clause, p) ==
    /\ p.type = item
    /\ p.safety >= MinSafety

\* WHERE "type" = $1 AND "safety" >= '50' ${skintypeQuery}
Where(item, clause, p) ==
    /\ p.type = item
    /\ p.safety >= MinSafety
    /\ SkintypeClause(clause, p)

Candidates(item, clause, cat) ==
    {id \in cat : Where(item, clause, ProductAt(id))}

\* the ranking column of every candidate
Rankings(expr, cands) == [id \in cands |-> Ranking(expr, ProductAt(id))]

\* Mutant: ORDER BY "ranking" DESC
Highest(rk, cands) == {m \in cands : \A o \in cands : rk[m] >= rk[o]}

\* the candidates no other candidate ranks strictly below
Lowest(rk, cands) == {m \in cands : \A o \in cands : rk[m] <= rk[o]}

\* ORDER BY "ranking": ascending, rows of equal ranking in any order. Every
\* order the store may give the candidates: a lowest one, then the rest
RECURSIVE Orderings(_, _)
Orderings(rk, cands) ==
    IF cands = {} THEN {<<>>}
    ELSE UNION {{<<m>> \o s : s \in Orderings(rk, cands \ {m})} :
                    m \in Lowest(rk, cands)}

\* LIMIT 3
Take(s, n) == SubSeq(s, 1, IF Len(s) < n THEN Len(s) ELSE n)

\* SELECT *, ... AS "ranking": the row, named by its primary key (its
\* columns are ProductAt(id)), with its ranking column
WithRanking(rk, s) == [k \in 1..Len(s) |-> [id |-> s[k], ranking |-> rk[s[k]]]]

\* every row list the query may return for category item
Query(item, clause, expr, cat) ==
    LET cands == Candidates(item, clause, cat)
        rk == Rankings(expr, cands)
    IN  {WithRanking(rk, Take(s, Limit)) : s \in Orderings(rk, cands)}

----------------------------------------------------------------------------
(* Lines 42-62: promises, the join and the result *)

Pending == [state |-> "pending", rows |-> <<>>]

Fulfilled(rows) == [state |-> "fulfilled", rows |-> rows]

Rejected == [state |-> "rejected", rows |-> <<>>]

\* a null entry of productRecs, and an entry holding result.rows
Null == [isNull |-> TRUE, rows |-> <<>>]

Rows(rows) == [isNull |-> FALSE, rows |-> rows]

\* var productRecs = {"cleanser": null, ..., "sunscreen": null}
InitialRecs ==
    [c \in {"cleanser", "toner", "serum", "moisturizer", "sunscreen"} |-> Null]

\* nothing has been handed to the caller
NoResult == [c \in {} |-> Null]

\* Mutant: only the categories the profile wants are queried
CategoriesWanted(n) ==
    SelectSeq(categories, LAMBDA c : LooseEquals(Get(n, c), Num(1)))

\* categories.forEach: the categories a query is built for. The profile is
\* in scope but not consulted
CategoriesToFetch(n) == categories

\* Mutant: await db.query(...) inside the loop
NextToSubmitAwaited(ps) ==
    IF \A i \in 1..Len(ps) : ps[i].state # "pending" THEN Len(ps) + 1 ELSE 0

\* the forEach body holds no await: the next category is submitted whatever
\* the state of the promises already pushed
NextToSubmit(ps) == Len(ps) + 1

\* Mutant: Promise.allSettled(promises)
PromiseAllSettledState(ps) ==
    IF \A i \in 1..Len(ps) : ps[i].state # "pending" THEN "fulfilled"
    ELSE "pending"

\* Promise.all(promises): rejected as soon as one promise is rejected,
\* fulfilled once all are fulfilled
PromiseAllState(ps) ==
    IF \E i \in 1..Len(ps) : ps[i].state = "rejected" THEN "rejected"
    ELSE IF \A i \in 1..Len(ps) : ps[i].state = "fulfilled" THEN "fulfilled"
    ELSE "pending"

\* Mutant: productRecs[categories[index + 1]], wrapping around
AssignRecsShifted(recs, ps, cats) ==
    [c \in DOMAIN recs |->
        IF \E index \in 1..Len(ps) : cats[(index % Len(cats)) + 1] = c
        THEN Rows(ps[CHOOSE index \in 1..Len(ps) :
                        cats[(index % Len(cats)) + 1] = c].rows)
        ELSE recs[c]]

\* resultOfPromises.forEach((result, index) =>
\*     productRecs[categories[index]] = result.rows)
AssignRecs(recs, ps, cats) ==
    [c \in DOMAIN recs |->
        IF \E index \in 1..Len(ps) : cats[index] = c
        THEN Rows(ps[CHOOSE index \in 1..Len(ps) : cats[index] = c].rows)
        ELSE recs[c]]

----------------------------------------------------------------------------
(* Actions *)

\* lines 12-19
Validate ==
    /\ pc = "start"
    /\ IF MissingRequired(needs)
       THEN pc' = "done" /\ outcome' = "BadRequestError"
       ELSE pc' = "compile" /\ outcome' = outcome
    /\ UNCHANGED <<needs, catalog, skintypeQuery, skinNeedsQuery, promises,
                   dbQueries, productRecs, returned, inversion, lastItem,
                   lastRows>>

\* lines 22-44
Compile ==
    /\ pc = "compile"
    /\ productRecs' = InitialRecs
    /\ skintypeQuery' = SkintypeQuery(needs)
    /\ skinNeedsQuery' = SkinNeedsQuery(needs)
    /\ pc' = "submit"
    /\ UNCHANGED <<needs, catalog, promises, dbQueries, returned, outcome,
                   inversion, lastItem, lastRows>>

\* lines 45-54, one iteration: promises.push(db.query(query, [item]))
Submit ==
    /\ pc = "submit"
    /\ NextToSubmit(promises) \in 1..Len(CategoriesToFetch(needs))
    /\ promises' = Append(promises, Pending)
    /\ dbQueries' = Append(dbQueries, CategoriesToFetch(needs)[Len(promises) + 1])
    /\ UNCHANGED <<needs, catalog, pc, skintypeQuery, skinNeedsQuery,
                   productRecs, returned, outcome, inversion, lastItem,
                   lastRows>>

\* line 56: the loop is over and the function suspends on Promise.all
AwaitAll ==
    /\ pc = "submit"
    /\ Len(promises) = Len(CategoriesToFetch(needs))
    /\ pc' = "await"
    /\ UNCHANGED <<needs, catalog, skintypeQuery, skinNeedsQuery, promises,
                   dbQueries, productRecs, returned, outcome, inversion,
                   lastItem, lastRows>>

\* Promise i settles as np. JavaScript runs to completion, so no promise
\* settles before the function suspends at line 56; the reactions of
\* Promise.all and of the suspended function run as microtasks of the same
\* turn: lines 56-62 resume and return, or the await throws.
Settle(i, np) ==
    /\ pc \in {"await", "done"}
    /\ promises[i].state = "pending"
    /\ promises' = [promises EXCEPT ![i] = np]
    /\ inversion' =
          (inversion \/ \E j \in 1..(i - 1) : promises[j].state = "pending")
    /\ IF pc = "await" /\ PromiseAllState(promises') = "fulfilled"
       THEN /\ productRecs' =
                  AssignRecs(productRecs, promises', CategoriesToFetch(needs))
            /\ returned' = productRecs'
            /\ outcome' = "returned"
            /\ pc' = "done"
       ELSE IF pc = "await" /\ PromiseAllState(promises') = "rejected"
       THEN /\ outcome' = "StoreError"
            /\ pc' = "done"
            /\ UNCHANGED <<productRecs, returned>>
       ELSE UNCHANGED <<productRecs, returned, outcome, pc>>
    /\ UNCHANGED <<needs, catalog, skintypeQuery, skinNeedsQuery, dbQueries,
                   lastItem, lastRows>>

\* the store answers query i with one of the row lists the query allows
Fulfill ==
    \E i \in 1..Len(promises) :
        /\ promises[i].state = "pending"
        /\ \E rows \in Query(dbQueries[i], skintypeQuery, skinNeedsQuery, catalog) :
                Settle(i, Fulfilled(rows))

\* the store fails query i
Reject ==
    \E i \in 1..Len(promises) : Settle(i, Rejected)

\* lines 46-53 for one category, with the store's answer
RunQuery ==
    /\ pc = "submit"
    /\ lastItem = "none"
    /\ \E k \in 1..Len(CategoriesToFetch(needs)) :
        /\ lastItem' = CategoriesToFetch(needs)[k]
        /\ lastRows' \in Query(lastItem', skintypeQuery, skinNeedsQuery, catalog)
    /\ UNCHANGED <<needs, catalog, pc, skintypeQuery, skinNeedsQuery, promises,
                   dbQueries, productRecs, returned, outcome, inversion>>

InitCommon ==
    /\ pc = "start"
    /\ skintypeQuery = <<>>
    /\ skinNeedsQuery = <<>>
    /\ promises = <<>>
    /\ dbQueries = <<>>
    /\ productRecs = NoResult
    /\ returned = NoResult
    /\ outcome = "none"
    /\ inversion = FALSE
    /\ lastItem = "none"
    /\ lastRows = <<>>

Init ==
    /\ needs \in Profiles
    /\ catalog = 1..NumProducts
    /\ InitCommon

Next == Validate \/ Compile \/ Submit \/ AwaitAll \/ Fulfill \/ Reject

Spec == Init /\ [][Next]_vars

InitQuery ==
    /\ needs \in QueryProfiles
    /\ catalog \in Catalogs
    /\ InitCommon

NextQuery == Validate \/ Compile \/ RunQuery

SpecQuery == InitQuery /\ [][NextQuery]_vars

----------------------------------------------------------------------------
(* Vocabulary of the claims *)

TwelveKeys ==
    {"cleanser", "toner", "serum", "moisturizer", "sunscreen", "oily", "dry",
     "sensitive", "acne_fighting", "anti_aging", "brightening", "uv"}

FiveCategories == {"cleanser", "toner", "serum", "moisturizer", "sunscreen"}

SkinFlags == {"oily", "dry", "sensitive"}

\* the values v for which the JavaScript comparison v == 1 is true
LooselyOne == {Num(1), Bool(TRUE)}

AllFulfilled ==
    /\ Len(promises) = 5
    /\ \A i \in 1..5 : promises[i].state = "fulfilled"

\* the ids of the rows of the last query evaluated
LastIds == {lastRows[k].id : k \in 1..Len(lastRows)}

\* the products of a category with safety >= 50
SafeOfType(item) ==
    {id \in catalog : ProductAt(id).type = item /\ ProductAt(id).safety >= 50}

Min(a, b) == IF a < b THEN a ELSE b

\* the ranking the store computes from the compiled expression
Score(id) == Ranking(skinNeedsQuery, ProductAt(id))

----------------------------------------------------------------------------
(* Claims checked under Spec *)

\* C1: a profile that lacks one of the twelve required keys ends in
\* BadRequestError, and no state of the call has issued a store query.
C1_MissingKeyRejected ==
    (TwelveKeys \ DOMAIN needs # {}) =>
        /\ dbQueries = <<>>
        /\ promises = <<>>
        /\ pc \in {"start", "done"}
        /\ outcome \in {"none", "BadRequestError"}
        /\ pc = "done" => outcome = "BadRequestError"

C1_Witness ==
    /\ DOMAIN needs = TwelveKeys \ {"uv"}
    /\ pc = "done"
    /\ outcome = "BadRequestError"
    /\ dbQueries = <<>>

\* C2: when the store fails one of the five queries, whenever that is, the
\* call fails and the caller receives no mapping; a mapping is handed to the
\* caller only after all five retrievals have succeeded.
C2_AllOrNothing ==
    /\ (\E i \in 1..Len(promises) : promises[i].state = "rejected") =>
            outcome = "StoreError" /\ returned = NoResult
    /\ outcome # "returned" => returned = NoResult
    /\ returned # NoResult => AllFulfilled

C2_Witness ==
    /\ Len(promises) = 5
    /\ promises[3].state = "rejected"
    /\ \A i \in {1, 2, 4, 5} : promises[i].state = "fulfilled"
    /\ Len(promises[1].rows) = 3
    /\ outcome = "StoreError"
    /\ returned = NoResult

\* C3: a successful call has issued one retrieval per fixed category and
\* returns exactly the five category keys, each with a list of 0 to 3
\* products, whatever the five category-wanted flags are.
C3_FiveKeysUpToThree ==
    outcome = "returned" =>
        /\ dbQueries = <<"cleanser", "toner", "serum", "moisturizer", "sunscreen">>
        /\ DOMAIN returned = FiveCategories
        /\ \A c \in FiveCategories :
            /\ ~returned[c].isNull
            /\ Len(returned[c].rows) \in 0..3

C3_Witness ==
    /\ outcome = "returned"
    /\ \A c \in FiveCategories : needs[c] = Num(0)
    /\ Len(returned["cleanser"].rows) = 3
    /\ Cardinality(SafeOfType("cleanser")) > 3
    /\ Len(returned["moisturizer"].rows) = 0

\* C4: in the returned mapping every product under a category key has that
\* category as its type and safety >= 50, in every order of completion.
C4_RowsUnderOwnCategory ==
    outcome = "returned" =>
        \A c \in DOMAIN returned :
            \A k \in 1..Len(returned[c].rows) :
                /\ ProductAt(returned[c].rows[k].id).type = c
                /\ ProductAt(returned[c].rows[k].id).safety >= 50

C4_Witness ==
    /\ outcome = "returned"
    /\ inversion
    /\ Len(returned["cleanser"].rows) > 0
    /\ Len(returned["toner"].rows) > 0
    /\ Len(returned["serum"].rows) > 0

\* C10: every query is submitted while all earlier ones are still in
\* flight, and the next submission is enabled whatever their state; the
\* wait starts only once all five are submitted, and the call returns only
\* after all five have been fulfilled.
C10_FireAllJoinAll ==
    /\ pc = "submit" =>
            \A i \in 1..Len(promises) : promises[i].state = "pending"
    /\ (pc = "submit" /\ Len(promises) < 5) => ENABLED Submit
    /\ pc = "await" => Len(promises) = 5
    /\ outcome = "returned" => AllFulfilled

C10_Witness ==
    /\ pc = "await"
    /\ Len(promises) = 5
    /\ \A i \in 1..5 : promises[i].state = "pending"

----------------------------------------------------------------------------
(* Claims checked under SpecQuery *)

\* the score the claim C5 describes: the sum of the product's columns for
\* the functionality flags whose profile value is 1
ClaimedNeedsScore(id) ==
    (IF needs["acne_fighting"] = Num(1) THEN ProductAt(id).acne_fighting ELSE 0)
    + (IF needs["anti_aging"] = Num(1) THEN ProductAt(id).anti_aging ELSE 0)
    + (IF needs["brightening"] = Num(1) THEN ProductAt(id).brightening ELSE 0)
    + (IF needs["uv"] = Num(1) THEN ProductAt(id).uv ELSE 0)

ComedogenicAdded == "comedogenic" \in Range(skinNeedsQuery)

\* C5: the ranking score of a product is the sum of its columns for the
\* functionality flags the profile sets to 1 (0 when none is set), to which
\* comedogenic is added when the compiled expression carries it.
C5_RankingSumsSelectedNeeds ==
    pc = "submit" =>
        \A id \in catalog :
            Score(id) = ClaimedNeedsScore(id)
                + (IF ComedogenicAdded THEN ProductAt(id).comedogenic ELSE 0)

\* C6 as stated: comedogenic is added to the ranking score if and only if
\* the profile's oily value is the boolean true; never for the integer 1.
C6_ComedogenicIffBooleanTrue ==
    pc = "submit" => (ComedogenicAdded <=> needs["oily"] = Bool(TRUE))

\* C6 as amended: comedogenic is added to the ranking score if and only if
\* the profile's oily value is loosely equal to true, that is the boolean
\* true or the integer 1; the score then exceeds the base score by the
\* product's comedogenic column.
C6_ComedogenicIffLooselyTrue ==
    pc = "submit" =>
        /\ ComedogenicAdded <=> needs["oily"] \in {Bool(TRUE), Num(1)}
        /\ \A id \in catalog :
            Score(id) - Ranking(SkinNeedsBase(needs), ProductAt(id)) =
                IF needs["oily"] \in {Bool(TRUE), Num(1)}
                THEN ProductAt(id).comedogenic
                ELSE 0

C6_Witness ==
    /\ lastItem = "toner"
    /\ needs["oily"] = Num(1)
    /\ needs["acne_fighting"] = Num(1)
    /\ \E k \in 1..Len(lastRows) :
        /\ lastRows[k].id = 6
        /\ ProductAt(6).acne_fighting = 0
        /\ lastRows[k].ranking = 1

\* what C7 and C8 conclude when no skin type is selected: the clause is
\* empty and the candidates of every category are its products with
\* safety >= 50, whatever their suitability columns
NoSkintypeRestriction ==
    /\ skintypeQuery = <<>>
    /\ \A item \in FiveCategories :
        Candidates(item, skintypeQuery, catalog) = SafeOfType(item)
    /\ lastItem # "none" =>
        /\ LastIds \subseteq SafeOfType(lastItem)
        /\ Len(lastRows) = Min(3, Cardinality(SafeOfType(lastItem)))

\* C7 as stated: if no skin-type flag is the integer 1 (0, false and also
\* the boolean true select nothing), the clause is empty and no skin-type
\* restriction applies.
C7_NoIntegerOneNoRestriction ==
    (pc = "submit" /\ \A t \in SkinFlags : needs[t] # Num(1)) =>
        NoSkintypeRestriction

\* C7 as amended: if no skin-type flag is loosely equal to 1 (0 and false
\* select nothing, the boolean true selects like the integer 1), the clause
\* is empty and no skin-type restriction applies.
C7_NoLooseOneNoRestriction ==
    (pc = "submit" /\ \A t \in SkinFlags : needs[t] \notin LooselyOne) =>
        NoSkintypeRestriction

C7_Witness ==
    /\ lastItem = "toner"
    /\ needs["oily"] = Num(2)
    /\ needs["dry"] = Bool(FALSE)
    /\ needs["sensitive"] = Num(0)
    /\ 7 \in LastIds
    /\ ProductAt(7).oily + ProductAt(7).dry + ProductAt(7).sensitive = 0

\* C8 as stated: if some skin-type flags are the integer 1, every returned
\* product has the suitability column of at least one of those flags at 1.
C8_ReturnedMatchIntegerOneFlag ==
    (lastItem # "none" /\ \E t \in SkinFlags : needs[t] = Num(1)) =>
        \A id \in LastIds :
            \E t \in SkinFlags : needs[t] = Num(1) /\ ProductAt(id)[t] = 1

\* C8 as amended: if some skin-type flags are loosely equal to 1 (the
\* integer 1 or the boolean true), every returned product has the
\* suitability column of at least one of those flags at 1.
C8_ReturnedMatchLooseOneFlag ==
    (lastItem # "none" /\ \E t \in SkinFlags : needs[t] \in LooselyOne) =>
        \A id \in LastIds :
            \E t \in SkinFlags : needs[t] \in LooselyOne /\ ProductAt(id)[t] = 1

C8_Witness ==
    /\ lastItem = "cleanser"
    /\ needs["oily"] = Num(1)
    /\ needs["dry"] = Num(0)
    /\ needs["sensitive"] = Num(1)
    /\ LastIds = {1, 3, 4}
    /\ ProductAt(1).sensitive = 0
    /\ ProductAt(4).oily = 0
    /\ 2 \in SafeOfType("cleanser")

\* C9: the rows of a category are in non-decreasing order of the computed
\* ranking, and they are the first (at most 3) of the category's candidates
\* in that order: no omitted candidate ranks strictly below a returned one.
C9_AscendingFirstThree ==
    lastItem # "none" =>
        /\ LastIds \subseteq Candidates(lastItem, skintypeQuery, catalog)
        /\ Cardinality(LastIds) = Len(lastRows)
        /\ Len(lastRows) =
            Min(3, Cardinality(Candidates(lastItem, skintypeQuery, catalog)))
        /\ \A k \in 1..Len(lastRows) : lastRows[k].ranking = Score(lastRows[k].id)
        /\ \A j, k \in 1..Len(lastRows) :
            j < k => lastRows[j].ranking <= lastRows[k].ranking
        /\ \A q \in Candidates(lastItem, skintypeQuery, catalog) \ LastIds :
            \A k \in 1..Len(lastRows) : lastRows[k].ranking <= Score(q)

C9_Witness ==
    /\ lastItem = "cleanser"
    /\ Len(lastRows) = 3
    /\ lastRows[1].ranking < lastRows[3].ranking
    /\ Candidates(lastItem, skintypeQuery, catalog) \ LastIds # {}

====
